---------------------------- MODULE Spec2Model ----------------------------
(***************************************************************************)
(* Ledger of clinic bookings: the in-memory store (mockData.js), the       *)
(* durable store (database.js, Supabase branch), the booking handler that  *)
(* calls them and the report queries.                                      *)
(*                                                                         *)
(* JavaScript strings are modelled as sequences of one-character strings,  *)
(* so that formatting, padding and lexicographic comparison are computed   *)
(* the way the code computes them.  The JavaScript value null, where a     *)
(* string or a row is expected, is the empty sequence.                     *)
(***************************************************************************)
EXTENDS Integers, Sequences, FiniteSets

VARIABLES
    solicitudes,   \* mockData.js: let solicitudes = []
    idCounter,     \* mockData.js: let idCounter = 1
    tabla,         \* durable store: rows of table 'solicitudes', in insertion order
    pc,            \* booking handler: position of each concurrent handler
    req,           \* booking handler: the request a handler is serving
    turno,         \* booking handler: ticket number read by a handler
    res,           \* booking handler: outcome of the handler's last booking
    intentos,      \* number of booking attempts started (capacity scenario)
    obsMock,       \* last result returned by the in-memory backend (conformance runs)
    obsBD,         \* last result returned by the durable backend (conformance runs)
    env,           \* process.env: SUPABASE_URL and SUPABASE_SERVICE_KEY
    exportados,    \* database.js: module.exports, the backend behind each operation
    falla,         \* the error the durable backend reported to the last operation
    informe,       \* last value computed by the report functions
    conexion,      \* index.js: calls of connectToWhatsApp, sockets, pending retry timers
    archivos,      \* paths of the report files on disk
    tarea          \* position of each running report function

vars == <<solicitudes, idCounter, tabla, pc, req, turno, res, intentos, obsMock, obsBD,
          env, exportados, falla, informe, conexion, archivos, tarea>>

\* the state the booking steps and the conformance steps leave alone
resto == <<env, exportados, falla, informe, conexion, archivos, tarea>>

-----------------------------------------------------------------------------
(* Bounds of the model *)

MaxSolicitudes == 3     \* records in the ledger, single-writer runs
MaxConcurrentes == 2    \* records in the ledger, concurrent runs
MaxIntentos == 22       \* booking attempts, capacity scenario
MaxCarrera == 12        \* booking attempts, concurrent capacity scenario
ConsultasPrevias == 8   \* bookings already made when the concurrent scenario starts
MaxInformes == 2        \* records in the ledger, report runs
MaxDual == 2            \* records in each store, conformance runs

-----------------------------------------------------------------------------
(* Strings *)

NULL == <<>>

Digitos == <<"0", "1", "2", "3", "4", "5", "6", "7", "8", "9">>

\* code unit order of the characters that occur in dates
Ord(c) == IF c = "-" THEN 45 ELSE 48 + (CHOOSE i \in 0..9 : Digitos[i + 1] = c)

\* String(n) for a natural number
RECURSIVE String(_)
String(n) == IF n < 10 THEN <<Digitos[n + 1]>>
             ELSE String(n \div 10) \o <<Digitos[(n % 10) + 1]>>

\* s.padStart(largo, c)
RECURSIVE padStart(_, _, _)
padStart(s, largo, c) == IF Len(s) >= largo THEN s ELSE padStart(<<c>> \o s, largo, c)

\* parseInt(s, 10) of a string of digits
RECURSIVE parseInt(_)
parseInt(s) == IF s = <<>> THEN 0
               ELSE 10 * parseInt(SubSeq(s, 1, Len(s) - 1)) + (Ord(s[Len(s)]) - 48)

\* s.split(sep) for a one-character separator
RECURSIVE split(_, _)
split(s, sep) ==
    IF \A i \in 1..Len(s) : s[i] # sep THEN <<s>>
    ELSE LET i == CHOOSE k \in 1..Len(s) : s[k] = sep /\ \A j \in 1..(k - 1) : s[j] # sep
         IN  <<SubSeq(s, 1, i - 1)>> \o split(SubSeq(s, i + 1, Len(s)), sep)

\* a < b on JavaScript strings: lexicographic by code unit
RECURSIVE StrMenor(_, _)
StrMenor(a, b) ==
    IF b = <<>> THEN FALSE
    ELSE IF a = <<>> THEN TRUE
    ELSE IF Ord(a[1]) # Ord(b[1]) THEN Ord(a[1]) < Ord(b[1])
    ELSE StrMenor(Tail(a), Tail(b))

\* mutant: the ends of the range left out, a < b
StrMenorIgual_estricto(a, b) == StrMenor(a, b)

StrMenorIgual(a, b) == a = b \/ StrMenor(a, b)

-----------------------------------------------------------------------------
(* Dates.  A Date is an instant; the model keeps its UTC calendar date     *)
(* (y, m, d) and the offset in days (-1, 0, 1) of the local calendar date. *)

esBisiesto(y) == (y % 4 = 0 /\ y % 100 # 0) \/ y % 400 = 0

\* days of month m (1..12) of year y
diasDelMes(y, m) ==
    IF m = 2 THEN (IF esBisiesto(y) THEN 29 ELSE 28)
    ELSE IF m \in {4, 6, 9, 11} THEN 30 ELSE 31

\* mutant: the month index is taken one too low, new Date(year, month - 1, 0)
ultimoDiaDelMes_mesAnterior(year, month) ==
    LET y == IF year \in 0..99 THEN 1900 + year ELSE year
    IN  IF month = 1 THEN diasDelMes(y - 1, 12) ELSE diasDelMes(y, month - 1)

\* new Date(year, month, 0).getDate(): day 0 of the month that follows month
\* `month` (1..12), the last day of `month`; years 0..99 are taken as 1900..1999
ultimoDiaDelMes(year, month) ==
    LET y == IF year \in 0..99 THEN 1900 + year ELSE year
    IN  diasDelMes(y, month)

\* weekday of a calendar date, 0 = Sunday
diaDeLaSemana(y, m, d) ==
    LET t == <<0, 3, 2, 5, 0, 3, 5, 1, 4, 6, 2, 4>>
        a == IF m < 3 THEN y - 1 ELSE y
    IN  (a + (a \div 4) - (a \div 100) + (a \div 400) + t[m] + d) % 7

\* fecha.getDay(): weekday of the local calendar date
getDay(fecha) == (diaDeLaSemana(fecha.y, fecha.m, fecha.d) + fecha.off + 7) % 7

\* fecha.toISOString().split('T')[0]: the UTC calendar date, zero padded
toISODate(fecha) ==
    padStart(String(fecha.y), 4, "0") \o <<"-">> \o padStart(String(fecha.m), 2, "0")
        \o <<"-">> \o padStart(String(fecha.d), 2, "0")

Fecha(y, m, d) == [y |-> y, m |-> m, d |-> d, off |-> 0]

-----------------------------------------------------------------------------
(* In-memory backend: mockData.js *)

cupos_consulta == 15
cupos_consulta_miercoles == 10
cupos_reembolso == 20
LimitePorDefecto == 15

configuracion ==
    [cupos_consulta |-> cupos_consulta,
     cupos_consulta_miercoles |-> cupos_consulta_miercoles,
     cupos_reembolso |-> cupos_reembolso]

\* mutant: the Wednesday override is forgotten
claveLimite_sinMiercoles(tipo, fecha) == "cupos_" \o tipo

\* `cupos_${tipo}`, or the Wednesday key for consultations
claveLimite(tipo, fecha) ==
    IF tipo = "consulta" /\ getDay(fecha) = 3
    THEN "cupos_consulta_miercoles"
    ELSE "cupos_" \o tipo

\* configuracion[claveLimite] || 15
limiteCupos(tipo, fecha) ==
    LET clave == claveLimite(tipo, fecha)
    IN  IF clave \in DOMAIN configuracion /\ configuracion[clave] # 0
        THEN configuracion[clave]
        ELSE LimitePorDefecto

\* mutant: emergencies are counted with the consultation family
tipoQuery_conEmergencia(tipo) ==
    IF tipo = "consulta" THEN {"consulta", "ecor", "emergencia"} ELSE {"reembolso"}

tipoQuery(tipo) == IF tipo = "consulta" THEN {"consulta", "ecor"} ELSE {"reembolso"}

\* mutant: every record that is not a reimbursement advances the C sequence
tipoSolicitudQuery_todos(prefijo) ==
    IF prefijo = "R" THEN {"reembolso"} ELSE {"consulta", "ecor", "emergencia"}

tipoSolicitudQuery(prefijo) == IF prefijo = "R" THEN {"reembolso"} ELSE {"consulta", "ecor"}

\* mutant: the count is not scoped to the date
contar_sinFecha(filas, tipos, fechaISO) ==
    Len(SelectSeq(filas, LAMBDA s : s.tipo_solicitud \in tipos))

\* solicitudes.filter(s => tipos.includes(s.tipo_solicitud) && s.fecha_solicitud === fechaISO).length
contar(filas, tipos, fechaISO) ==
    Len(SelectSeq(filas, LAMBDA s : s.tipo_solicitud \in tipos /\ s.fecha_solicitud = fechaISO))

getCuposDisponibles(tipo, fecha) ==
    limiteCupos(tipo, fecha) - contar(solicitudes, tipoQuery(tipo), toISODate(fecha))

\* `${prefijo}-${String(nuevoNumero).padStart(3, '0')}`
formatoTurno(prefijo, nuevoNumero) ==
    <<prefijo, "-">> \o padStart(String(nuevoNumero), 3, "0")

\* mutant: the count is not scoped to the date
getSiguienteNumeroTurno_sinFecha(prefijo, fecha) ==
    formatoTurno(prefijo,
        Len(SelectSeq(solicitudes, LAMBDA s : s.tipo_solicitud \in tipoSolicitudQuery(prefijo))) + 1)

getSiguienteNumeroTurno(prefijo, fecha) ==
    formatoTurno(prefijo, contar(solicitudes, tipoSolicitudQuery(prefijo), toISODate(fecha)) + 1)

\* { id: idCounter++, ...datosSolicitud }: the fields of datosSolicitud win
nuevaSolicitud(datosSolicitud) ==
    [k \in {"id"} \cup DOMAIN datosSolicitud |->
        IF k \in DOMAIN datosSolicitud THEN datosSolicitud[k] ELSE idCounter]

\* solicitudes.push(nuevaSolicitud)
push(filas, fila) == Append(filas, fila)

\* crearSolicitud(datosSolicitud): the new record goes to the tail, idCounter++
crearSolicitud(datosSolicitud) ==
    /\ solicitudes' = push(solicitudes, nuevaSolicitud(datosSolicitud))
    /\ idCounter' = idCounter + 1

\* mutant: only annual exams count as an existing appointment
checkExistingAppointment_soloEcor(cedula, fecha) ==
    \E i \in 1..Len(solicitudes) :
        /\ solicitudes[i].cedula = cedula
        /\ solicitudes[i].fecha_solicitud = toISODate(fecha)
        /\ solicitudes[i].tipo_solicitud \in {"ecor"}

checkExistingAppointment(cedula, fecha) ==
    \E i \in 1..Len(solicitudes) :
        /\ solicitudes[i].cedula = cedula
        /\ solicitudes[i].fecha_solicitud = toISODate(fecha)
        /\ solicitudes[i].tipo_solicitud \in {"consulta", "ecor"}

getDatosReporteDiario(fechaString) ==
    SelectSeq(solicitudes, LAMBDA s : s.fecha_solicitud = fechaString)

\* mesString is "YYYY-MM"; [year, month] = mesString.split('-')
getDatosReporteMensual(mesString) ==
    LET startDate == mesString \o <<"-", "0", "1">>
        year      == parseInt(split(mesString, "-")[1])
        month     == parseInt(split(mesString, "-")[2])
        lastDay   == ultimoDiaDelMes(year, month)
        endDate   == mesString \o <<"-">> \o String(lastDay)
    IN  SelectSeq(solicitudes, LAMBDA s :
            /\ StrMenorIgual(startDate, s.fecha_solicitud)
            /\ StrMenorIgual(s.fecha_solicitud, endDate))

-----------------------------------------------------------------------------
(* Durable backend: database.js with Supabase configured.  A query answers *)
(* {data, error}; every function catches the error and returns its         *)
(* fallback value.  Column fecha_solicitud is a date: the store compares    *)
(* calendar dates, not strings.                                            *)

\* table 'configuracion': clave -> valor
configuracionBD ==
    [cupos_consulta |-> <<"1", "5">>,
     cupos_consulta_miercoles |-> <<"1", "0">>,
     cupos_reembolso |-> <<"2", "0">>]

\* the calendar date a date literal 'YYYY-MM-DD' denotes
fechaSQL(texto) ==
    LET partes == split(texto, "-")
    IN  <<parseInt(partes[1]), parseInt(partes[2]), parseInt(partes[3])>>

\* a <= b on calendar dates
fechaSQLMenorIgual(a, b) ==
    \/ a[1] < b[1]
    \/ a[1] = b[1] /\ a[2] < b[2]
    \/ a[1] = b[1] /\ a[2] = b[2] /\ a[3] <= b[3]

\* .select('*', {count: 'exact', head: true}).in('tipo_solicitud', tipos).eq('fecha_solicitud', fechaISO)
contarBD(tipos, fechaISO) ==
    Len(SelectSeq(tabla, LAMBDA s :
        s.tipo_solicitud \in tipos /\ fechaSQL(s.fecha_solicitud) = fechaSQL(fechaISO)))

claveLimiteBD(tipo, fecha) ==
    IF tipo = "consulta" /\ getDay(fecha) = 3
    THEN "cupos_consulta_miercoles"
    ELSE "cupos_" \o tipo

\* .single() reports an error unless exactly one row matches: return 0
getCuposDisponiblesBD(tipo, fecha) ==
    LET clave == claveLimiteBD(tipo, fecha)
        tipos == IF tipo = "consulta" THEN {"consulta", "ecor"} ELSE {"reembolso"}
    IN  IF clave \notin DOMAIN configuracionBD THEN 0
        ELSE parseInt(configuracionBD[clave]) - contarBD(tipos, toISODate(fecha))

getSiguienteNumeroTurnoBD(prefijo, fecha) ==
    LET tipos == IF prefijo = "R" THEN {"reembolso"} ELSE {"consulta", "ecor"}
        nuevoNumero == contarBD(tipos, toISODate(fecha)) + 1
    IN  <<prefijo, "-">> \o padStart(String(nuevoNumero), 3, "0")

\* the UNIQUE constraint of the table: one ticket number per date
violaUnique(fila) ==
    /\ "numero_turno" \in DOMAIN fila
    /\ \E i \in 1..Len(tabla) :
            /\ "numero_turno" \in DOMAIN tabla[i]
            /\ tabla[i].numero_turno = fila.numero_turno
            /\ fechaSQL(tabla[i].fecha_solicitud) = fechaSQL(fila.fecha_solicitud)

\* the row .insert([datosSolicitud]).select().single() stores: the store assigns the id
filaNueva(datosSolicitud) ==
    [k \in {"id"} \cup DOMAIN datosSolicitud |->
        IF k = "id" THEN Len(tabla) + 1 ELSE datosSolicitud[k]]

\* crearSolicitud: the stored row, or null when the insert reports an error
crearSolicitudBD(datosSolicitud) ==
    IF violaUnique(datosSolicitud) THEN NULL ELSE <<filaNueva(datosSolicitud)>>

getDatosReporteDiarioBD(fechaString) ==
    SelectSeq(tabla, LAMBDA s : fechaSQL(s.fecha_solicitud) = fechaSQL(fechaString))

getDatosReporteMensualBD(mesString) ==
    LET startDate == mesString \o <<"-", "0", "1">>
        year      == parseInt(split(mesString, "-")[1])
        month     == parseInt(split(mesString, "-")[2])
        lastDay   == ultimoDiaDelMes(year, month)
        endDate   == mesString \o <<"-">> \o String(lastDay)
    IN  SelectSeq(tabla, LAMBDA s :
            /\ fechaSQLMenorIgual(fechaSQL(startDate), fechaSQL(s.fecha_solicitud))
            /\ fechaSQLMenorIgual(fechaSQL(s.fecha_solicitud), fechaSQL(endDate)))

\* .maybeSingle(): no row gives data null, one row gives the row, more than
\* one row gives an error, which the catch turns into false
checkExistingAppointmentBD(cedula, fecha) ==
    LET filas == SelectSeq(tabla, LAMBDA s :
                    /\ s.cedula = cedula
                    /\ fechaSQL(s.fecha_solicitud) = fechaSQL(toISODate(fecha))
                    /\ s.tipo_solicitud \in {"consulta", "ecor"})
    IN  Len(filas) = 1

-----------------------------------------------------------------------------
(* Module database.js: the backend is chosen when the module is loaded.    *)
(* process.env holds a variable as <<value>>, or NULL when it is not set.  *)

\* not set, set to the empty string, set to a value
Credenciales == {NULL, <<NULL>>, <<<<"k">>>>}

Entornos == [SUPABASE_URL : Credenciales, SUPABASE_SERVICE_KEY : Credenciales]

SinCredenciales == [SUPABASE_URL |-> NULL, SUPABASE_SERVICE_KEY |-> NULL]

\* JavaScript truthiness of process.env.X: undefined and '' are falsy
esVerdadero(v) == v # NULL /\ v[1] # <<>>

\* mutant: the service key is not looked at
supabaseConfigured_soloURL(e) == esVerdadero(e.SUPABASE_URL)

\* process.env.SUPABASE_URL && process.env.SUPABASE_SERVICE_KEY, as a condition
supabaseConfigured(e) == esVerdadero(e.SUPABASE_URL) /\ esVerdadero(e.SUPABASE_SERVICE_KEY)

Operaciones ==
    {"getCuposDisponibles", "getSiguienteNumeroTurno", "crearSolicitud",
     "getDatosReporteDiario", "getDatosReporteMensual", "checkExistingAppointment"}

\* module.exports before database.js is loaded
SinCargar == [op \in Operaciones |-> "ninguno"]

\* module.exports of database.js: the implementation behind each operation
exportar(e) ==
    IF supabaseConfigured(e)
    THEN [op \in Operaciones |-> "supabase"]
    ELSE [op \in Operaciones |-> "mock"]

-----------------------------------------------------------------------------
(* Booking handler (Allocation Service, bookSlot): duplicate check,        *)
(* capacity check, ticket number, insert.  Each call of the store is       *)
(* awaited, so handlers of different conversations interleave between      *)
(* calls.                                                                  *)

\* handlers of two conversations; Escritor is the one of single-writer runs
Procs == {"h1", "h2"}
Escritor == "h1"

Tipos == {"consulta", "ecor", "reembolso", "emergencia"}
\* cedulas of the general runs
Pacientes == {1, 2, 3}

Miercoles == Fecha(2024, 2, 28)
Jueves == Fecha(2024, 2, 29)
Fechas == {Miercoles, Jueves}

SinSolicitud == [tipo |-> "ninguno", fecha |-> Fecha(0, 1, 1), cedula |-> 0]
SinResultado == [estado |-> "ninguno", registro |-> <<>>]
Fallo(error) == [estado |-> error, registro |-> <<>>]
Exito(registro) == [estado |-> "ok", registro |-> <<registro>>]

\* the request type under which capacity is asked: the ticket family's
tipoCupo(tipo) == IF tipo \in {"consulta", "ecor"} THEN "consulta" ELSE tipo

\* prefix C for the consultation family, R for reimbursement
prefijoDe(tipo) == IF tipo = "reembolso" THEN "R" ELSE "C"

EnCurso == {p \in Procs : pc[p] # "libre"}

\* the fields the handler passes to crearSolicitud
datosDe(r, numero) ==
    IF r.tipo = "emergencia"
    THEN [tipo_solicitud |-> r.tipo, fecha_solicitud |-> toISODate(r.fecha),
          cedula |-> r.cedula]
    ELSE [tipo_solicitud |-> r.tipo, fecha_solicitud |-> toISODate(r.fecha),
          cedula |-> r.cedula, numero_turno |-> numero]

\* bookSlot is entered: step 1 sends emergencies straight to the insert
Recibir(p, tipo, fecha, cedula) ==
    /\ pc[p] = "libre"
    /\ req' = [req EXCEPT ![p] = [tipo |-> tipo, fecha |-> fecha, cedula |-> cedula]]
    /\ pc' = [pc EXCEPT ![p] =
                IF tipo = "emergencia" THEN "insertar"
                ELSE IF tipo \in {"consulta", "ecor"} THEN "duplicado"
                ELSE "cupos"]
    /\ res' = [res EXCEPT ![p] = SinResultado]
    /\ UNCHANGED <<solicitudes, idCounter, tabla, turno, obsMock, obsBD>>
    /\ UNCHANGED resto

\* a booking request of the general runs, while the ledger is below `max`
Solicitar(p, tipo, fecha, cedula, max) ==
    /\ Len(solicitudes) + Cardinality(EnCurso) < max
    /\ Recibir(p, tipo, fecha, cedula)
    /\ UNCHANGED intentos

\* step 2: duplicate guard
VerificarDuplicado(p) ==
    /\ pc[p] = "duplicado"
    /\ IF checkExistingAppointment(req[p].cedula, req[p].fecha)
       THEN /\ res' = [res EXCEPT ![p] = Fallo("DuplicateBookingError")]
            /\ pc' = [pc EXCEPT ![p] = "libre"]
            /\ req' = [req EXCEPT ![p] = SinSolicitud]
       ELSE /\ pc' = [pc EXCEPT ![p] = "cupos"]
            /\ UNCHANGED <<res, req>>
    /\ UNCHANGED <<solicitudes, idCounter, tabla, turno, intentos, obsMock, obsBD>>
    /\ UNCHANGED resto

\* step 3: remaining capacity
VerificarCupos(p) ==
    /\ pc[p] = "cupos"
    /\ IF getCuposDisponibles(tipoCupo(req[p].tipo), req[p].fecha) <= 0
       THEN /\ res' = [res EXCEPT ![p] = Fallo("CapacityExceededError")]
            /\ pc' = [pc EXCEPT ![p] = "libre"]
            /\ req' = [req EXCEPT ![p] = SinSolicitud]
       ELSE /\ pc' = [pc EXCEPT ![p] = "turno"]
            /\ UNCHANGED <<res, req>>
    /\ UNCHANGED <<solicitudes, idCounter, tabla, turno, intentos, obsMock, obsBD>>
    /\ UNCHANGED resto

\* step 4: ticket number
AsignarTurno(p) ==
    /\ pc[p] = "turno"
    /\ turno' = [turno EXCEPT ![p] =
                    getSiguienteNumeroTurno(prefijoDe(req[p].tipo), req[p].fecha)]
    /\ pc' = [pc EXCEPT ![p] = "insertar"]
    /\ UNCHANGED <<solicitudes, idCounter, tabla, req, res, intentos, obsMock, obsBD>>
    /\ UNCHANGED resto

\* step 5: crearSolicitud(datosSolicitud) on the in-memory backend
Insertar(p) ==
    /\ pc[p] = "insertar"
    /\ crearSolicitud(datosDe(req[p], turno[p]))
    /\ res' = [res EXCEPT ![p] = Exito(nuevaSolicitud(datosDe(req[p], turno[p])))]
    /\ pc' = [pc EXCEPT ![p] = "libre"]
    /\ req' = [req EXCEPT ![p] = SinSolicitud]
    /\ turno' = [turno EXCEPT ![p] = NULL]
    /\ UNCHANGED <<tabla, intentos, obsMock, obsBD>>
    /\ UNCHANGED resto

Paso(p) ==
    \/ VerificarDuplicado(p)
    \/ VerificarCupos(p)
    \/ AsignarTurno(p)
    \/ Insertar(p)

SinObservacion == [op |-> "ninguna", args |-> <<>>, val |-> <<>>]

\* JavaScript's undefined, where a value of any type may stand
undefined == [tipo |-> "undefined"]

\* no 'connection.update' event has been handled yet
SinEvento == [connection |-> undefined, lastDisconnect |-> undefined, qr |-> undefined]

\* index.js: connectToWhatsApp() at the end of the module, one socket made
ConexionInicial ==
    [llamadas |-> 1, sockets |-> 1, temporizadores |-> 0,
     evento |-> SinEvento, reconecta |-> FALSE]

\* the report functions that may run at the same time
Tareas == {"t1", "t2"}

\* no report function is running
SinTarea ==
    [fn |-> "ninguna", arg |-> NULL, pc |-> "libre", datos |-> <<>>,
     filePath |-> NULL, entregas |-> <<>>, fin |-> "ninguno"]

Init ==
    /\ solicitudes = <<>>
    /\ idCounter = 1
    /\ tabla = <<>>
    /\ pc = [p \in Procs |-> "libre"]
    /\ req = [p \in Procs |-> SinSolicitud]
    /\ turno = [p \in Procs |-> NULL]
    /\ res = [p \in Procs |-> SinResultado]
    /\ intentos = 0
    /\ obsMock = SinObservacion
    /\ obsBD = SinObservacion
    /\ env = SinCredenciales
    /\ exportados = exportar(SinCredenciales)
    /\ falla = NULL
    /\ informe = SinObservacion
    /\ conexion = ConexionInicial
    /\ archivos = {}
    /\ tarea = [t \in Tareas |-> SinTarea]

\* concurrent handlers on the in-memory backend
Next ==
    \E p \in Procs :
        \/ \E tipo \in Tipos, fecha \in Fechas, cedula \in Pacientes :
                Solicitar(p, tipo, fecha, cedula, MaxConcurrentes)
        \/ Paso(p)

Spec == Init /\ [][Next]_vars

\* single-writer operation: one handler at a time
NextUno ==
    \/ \E tipo \in Tipos, fecha \in Fechas, cedula \in Pacientes :
            Solicitar(Escritor, tipo, fecha, cedula, MaxSolicitudes)
    \/ Paso(Escritor)

SpecUno == Init /\ [][NextUno]_vars

-----------------------------------------------------------------------------
(* Capacity scenario: every booking is for one request type and one date,  *)
(* each attempt by a patient who has not booked before.                    *)

TiposConCupo == {"consulta", "ecor", "reembolso"}

\* the request of attempt number intentos + 1
SolicitarEscenario(p, tipo, fecha, max) ==
    /\ intentos < max
    /\ \A i \in 1..Len(solicitudes) :
            /\ solicitudes[i].tipo_solicitud = tipo
            /\ solicitudes[i].fecha_solicitud = toISODate(fecha)
    /\ \A q \in EnCurso : req[q].tipo = tipo /\ req[q].fecha = fecha
    /\ Recibir(p, tipo, fecha, intentos + 1)
    /\ intentos' = intentos + 1

\* bookings one at a time
NextCupos ==
    \/ \E tipo \in TiposConCupo, fecha \in Fechas : SolicitarEscenario(Escritor, tipo, fecha, MaxIntentos)
    \/ Paso(Escritor)

SpecCupos == Init /\ [][NextCupos]_vars

\* the ledger after ConsultasPrevias consultations booked one at a time for
\* the Wednesday (the state SpecCupos reaches after that many attempts)
LibroPrevio ==
    [i \in 1..ConsultasPrevias |->
        [id |-> i, tipo_solicitud |-> "consulta", fecha_solicitud |-> toISODate(Miercoles),
         cedula |-> i, numero_turno |-> formatoTurno("C", i)]]

InitCarrera ==
    /\ solicitudes = LibroPrevio
    /\ idCounter = ConsultasPrevias + 1
    /\ tabla = <<>>
    /\ pc = [p \in Procs |-> "libre"]
    /\ req = [p \in Procs |-> SinSolicitud]
    /\ turno = [p \in Procs |-> NULL]
    /\ res = [p \in Procs |-> SinResultado]
    /\ intentos = ConsultasPrevias
    /\ obsMock = SinObservacion
    /\ obsBD = SinObservacion
    /\ env = SinCredenciales
    /\ exportados = exportar(SinCredenciales)
    /\ falla = NULL
    /\ informe = SinObservacion
    /\ conexion = ConexionInicial
    /\ archivos = {}
    /\ tarea = [t \in Tareas |-> SinTarea]

\* concurrent consultation bookings for one Wednesday
NextCarrera ==
    \E p \in Procs :
        \/ SolicitarEscenario(p, "consulta", Miercoles, MaxCarrera)
        \/ Paso(p)

SpecCarrera == InitCarrera /\ [][NextCarrera]_vars

-----------------------------------------------------------------------------
(* Conformance runs: the same operation is applied to both backends and    *)
(* the value each returns is kept.                                         *)

Obs(op, args, val) == [op |-> op, args |-> args, val |-> val]

OpCupos(tipo, fecha) ==
    /\ obsMock' = Obs("getCuposDisponibles", <<tipo, fecha>>, getCuposDisponibles(tipo, fecha))
    /\ obsBD' = Obs("getCuposDisponibles", <<tipo, fecha>>, getCuposDisponiblesBD(tipo, fecha))
    /\ UNCHANGED <<solicitudes, idCounter, tabla, pc, req, turno, res, intentos>>
    /\ UNCHANGED resto

OpExiste(cedula, fecha) ==
    /\ obsMock' = Obs("checkExistingAppointment", <<cedula, fecha>>,
                      checkExistingAppointment(cedula, fecha))
    /\ obsBD' = Obs("checkExistingAppointment", <<cedula, fecha>>,
                    checkExistingAppointmentBD(cedula, fecha))
    /\ UNCHANGED <<solicitudes, idCounter, tabla, pc, req, turno, res, intentos>>
    /\ UNCHANGED resto

OpTurno(prefijo, fecha) ==
    /\ obsMock' = Obs("getSiguienteNumeroTurno", <<prefijo, fecha>>,
                      getSiguienteNumeroTurno(prefijo, fecha))
    /\ obsBD' = Obs("getSiguienteNumeroTurno", <<prefijo, fecha>>,
                    getSiguienteNumeroTurnoBD(prefijo, fecha))
    /\ UNCHANGED <<solicitudes, idCounter, tabla, pc, req, turno, res, intentos>>
    /\ UNCHANGED resto

\* crearSolicitud(datos) on both backends
Crear(datosMock, datosBD, max) ==
    /\ Len(solicitudes) < max
    /\ crearSolicitud(datosMock)
    /\ tabla' = tabla \o crearSolicitudBD(datosBD)
    /\ obsMock' = Obs("crearSolicitud", <<datosMock>>, <<nuevaSolicitud(datosMock)>>)
    /\ obsBD' = Obs("crearSolicitud", <<datosBD>>, crearSolicitudBD(datosBD))
    /\ UNCHANGED <<pc, req, turno, res, intentos>>
    /\ UNCHANGED resto

\* crearSolicitud with the ticket number each backend has just returned
OpCrear(tipo, cedula, max) ==
    /\ obsMock.op = "getSiguienteNumeroTurno"
    /\ obsMock.args[1] = prefijoDe(tipo)
    /\ LET r == [tipo |-> tipo, fecha |-> obsMock.args[2], cedula |-> cedula]
       IN  Crear(datosDe(r, obsMock.val), datosDe(r, obsBD.val), max)

\* crearSolicitud of an emergency: no ticket number
OpCrearEmergencia(fecha, cedula, max) ==
    LET r == [tipo |-> "emergencia", fecha |-> fecha, cedula |-> cedula]
    IN  Crear(datosDe(r, NULL), datosDe(r, NULL), max)

OpDiario(fechaString) ==
    /\ obsMock' = Obs("getDatosReporteDiario", <<fechaString>>, getDatosReporteDiario(fechaString))
    /\ obsBD' = Obs("getDatosReporteDiario", <<fechaString>>, getDatosReporteDiarioBD(fechaString))
    /\ UNCHANGED <<solicitudes, idCounter, tabla, pc, req, turno, res, intentos>>
    /\ UNCHANGED resto

OpMensual(mesString) ==
    /\ obsMock' = Obs("getDatosReporteMensual", <<mesString>>, getDatosReporteMensual(mesString))
    /\ obsBD' = Obs("getDatosReporteMensual", <<mesString>>, getDatosReporteMensualBD(mesString))
    /\ UNCHANGED <<solicitudes, idCounter, tabla, pc, req, turno, res, intentos>>
    /\ UNCHANGED resto

MesDe(fecha) == SubSeq(toISODate(fecha), 1, 7)

\* both backends, every operation, the general inputs
NextDual ==
    \/ \E tipo \in {"consulta", "reembolso"}, fecha \in Fechas : OpCupos(tipo, fecha)
    \/ \E cedula \in Pacientes, fecha \in Fechas : OpExiste(cedula, fecha)
    \/ \E prefijo \in {"C", "R"}, fecha \in Fechas : OpTurno(prefijo, fecha)
    \/ \E tipo \in TiposConCupo, cedula \in Pacientes : OpCrear(tipo, cedula, MaxDual)
    \/ \E fecha \in Fechas, cedula \in Pacientes : OpCrearEmergencia(fecha, cedula, MaxDual)
    \/ \E fecha \in Fechas : OpDiario(toISODate(fecha))
    \/ \E fecha \in Fechas : OpMensual(MesDe(fecha))

SpecDual == Init /\ [][NextDual]_vars

\* dates around the ends of months, of leap and common years
FechasInforme ==
    {Fecha(2000, 2, 29), Fecha(2023, 2, 28), Fecha(2023, 3, 1), Fecha(2023, 12, 31),
     Fecha(2024, 1, 31), Fecha(2024, 2, 1), Fecha(2024, 2, 29), Fecha(2024, 3, 1),
     Fecha(2024, 3, 31)}

Meses == {MesDe(f) : f \in FechasInforme}

\* records of many dates, then the reports of both backends
NextReporte ==
    \/ \E fecha \in FechasInforme : OpCrearEmergencia(fecha, 1, MaxInformes)
    \/ \E fecha \in FechasInforme : OpDiario(toISODate(fecha))
    \/ \E mes \in Meses : OpMensual(mes)

SpecReporte == Init /\ [][NextReporte]_vars

-----------------------------------------------------------------------------
(* The interface mockData.js exports, called directly: the six operations, *)
(* resetMockData and getAllSolicitudes.                                    *)

MaxMock == 2            \* records in the ledger, direct calls

\* the only effect of a read: its result
SoloObsMock == UNCHANGED <<solicitudes, idCounter, tabla, pc, req, turno, res, intentos,
                           obsBD, env, exportados, falla, informe,
                   conexion, archivos, tarea>>

\* datosSolicitud that itself carries an id field
conId(datosSolicitud, id) ==
    [k \in {"id"} \cup DOMAIN datosSolicitud |->
        IF k = "id" THEN id ELSE datosSolicitud[k]]

\* the datosSolicitud a caller passes for a request, with the ticket number
\* the store has just given for it
datosDirectos(tipo, fecha, cedula) ==
    datosDe([tipo |-> tipo, fecha |-> fecha, cedula |-> cedula],
            getSiguienteNumeroTurno(prefijoDe(tipo), fecha))

MockCrear(datosSolicitud) ==
    /\ Len(solicitudes) < MaxMock
    /\ crearSolicitud(datosSolicitud)
    /\ obsMock' = Obs("crearSolicitud", <<datosSolicitud>>, <<nuevaSolicitud(datosSolicitud)>>)
    /\ UNCHANGED <<tabla, pc, req, turno, res, intentos, obsBD>>
    /\ UNCHANGED resto

\* resetMockData(): solicitudes = []; idCounter = 1
resetMockData ==
    /\ solicitudes' = <<>>
    /\ idCounter' = 1
    /\ obsMock' = Obs("resetMockData", <<>>, <<>>)
    /\ UNCHANGED <<tabla, pc, req, turno, res, intentos, obsBD>>
    /\ UNCHANGED resto

\* getAllSolicitudes(): return solicitudes
getAllSolicitudes ==
    /\ obsMock' = Obs("getAllSolicitudes", <<>>, solicitudes)
    /\ SoloObsMock

MockCupos(tipo, fecha) ==
    /\ obsMock' = Obs("getCuposDisponibles", <<tipo, fecha>>, getCuposDisponibles(tipo, fecha))
    /\ SoloObsMock

MockTurno(prefijo, fecha) ==
    /\ obsMock' = Obs("getSiguienteNumeroTurno", <<prefijo, fecha>>,
                      getSiguienteNumeroTurno(prefijo, fecha))
    /\ SoloObsMock

MockExiste(cedula, fecha) ==
    /\ obsMock' = Obs("checkExistingAppointment", <<cedula, fecha>>,
                      checkExistingAppointment(cedula, fecha))
    /\ SoloObsMock

MockDiario(fechaString) ==
    /\ obsMock' = Obs("getDatosReporteDiario", <<fechaString>>, getDatosReporteDiario(fechaString))
    /\ SoloObsMock

MockMensual(mesString) ==
    /\ obsMock' = Obs("getDatosReporteMensual", <<mesString>>, getDatosReporteMensual(mesString))
    /\ SoloObsMock

NextMock ==
    \/ \E tipo \in Tipos, fecha \in Fechas : MockCrear(datosDirectos(tipo, fecha, 1))
    \/ \E tipo \in Tipos, fecha \in Fechas : MockCrear(conId(datosDirectos(tipo, fecha, 1), 1))
    \/ resetMockData
    \/ getAllSolicitudes
    \/ \E tipo \in TiposConCupo, fecha \in Fechas : MockCupos(tipo, fecha)
    \/ \E prefijo \in {"C", "R"}, fecha \in Fechas : MockTurno(prefijo, fecha)
    \/ \E fecha \in Fechas : MockExiste(1, fecha)
    \/ \E fecha \in Fechas : MockDiario(toISODate(fecha))
    \/ \E fecha \in Fechas : MockMensual(MesDe(fecha))

SpecMock == Init /\ [][NextMock]_vars

-----------------------------------------------------------------------------
(* The store as the rest of the program sees it: require('./database')     *)
(* runs the module body once, and every call goes to the implementation    *)
(* module.exports holds for that operation.                                *)

MaxModulo == 2          \* records in the store, runs through module.exports

\* the module body runs: the exports are fixed
Cargar ==
    /\ exportados = SinCargar
    /\ exportados' = exportar(env)
    /\ UNCHANGED <<solicitudes, idCounter, tabla, pc, req, turno, res, intentos,
                   obsMock, obsBD, env, falla, informe,
                   conexion, archivos, tarea>>

\* the result of a call of exported operation `op`
Responder(op, args, valMock, valBD) ==
    /\ exportados # SinCargar
    /\ IF exportados[op] = "supabase"
       THEN obsBD' = Obs(op, args, valBD) /\ UNCHANGED obsMock
       ELSE obsMock' = Obs(op, args, valMock) /\ UNCHANGED obsBD
    /\ UNCHANGED <<pc, req, turno, res, intentos, env, exportados, falla, informe,
                   conexion, archivos, tarea>>

SoloRespuesta == UNCHANGED <<solicitudes, idCounter, tabla>>

LlamarCupos(tipo, fecha) ==
    /\ Responder("getCuposDisponibles", <<tipo, fecha>>,
                 getCuposDisponibles(tipo, fecha), getCuposDisponiblesBD(tipo, fecha))
    /\ SoloRespuesta

LlamarTurno(prefijo, fecha) ==
    /\ Responder("getSiguienteNumeroTurno", <<prefijo, fecha>>,
                 getSiguienteNumeroTurno(prefijo, fecha), getSiguienteNumeroTurnoBD(prefijo, fecha))
    /\ SoloRespuesta

LlamarExiste(cedula, fecha) ==
    /\ Responder("checkExistingAppointment", <<cedula, fecha>>,
                 checkExistingAppointment(cedula, fecha), checkExistingAppointmentBD(cedula, fecha))
    /\ SoloRespuesta

LlamarDiario(fechaString) ==
    /\ Responder("getDatosReporteDiario", <<fechaString>>,
                 getDatosReporteDiario(fechaString), getDatosReporteDiarioBD(fechaString))
    /\ SoloRespuesta

LlamarMensual(mesString) ==
    /\ Responder("getDatosReporteMensual", <<mesString>>,
                 getDatosReporteMensual(mesString), getDatosReporteMensualBD(mesString))
    /\ SoloRespuesta

\* crearSolicitud with the ticket number the exported getSiguienteNumeroTurno gives
LlamarCrear(tipo, fecha, cedula) ==
    LET r == [tipo |-> tipo, fecha |-> fecha, cedula |-> cedula]
        datosMock == datosDe(r, getSiguienteNumeroTurno(prefijoDe(tipo), fecha))
        datosBD == datosDe(r, getSiguienteNumeroTurnoBD(prefijoDe(tipo), fecha))
    IN  /\ Len(solicitudes) + Len(tabla) < MaxModulo
        /\ Responder("crearSolicitud", <<r>>,
                     <<nuevaSolicitud(datosMock)>>, crearSolicitudBD(datosBD))
        /\ IF exportados.crearSolicitud = "supabase"
           THEN tabla' = tabla \o crearSolicitudBD(datosBD) /\ UNCHANGED <<solicitudes, idCounter>>
           ELSE crearSolicitud(datosMock) /\ UNCHANGED tabla

InitModulo ==
    /\ solicitudes = <<>>
    /\ idCounter = 1
    /\ tabla = <<>>
    /\ pc = [p \in Procs |-> "libre"]
    /\ req = [p \in Procs |-> SinSolicitud]
    /\ turno = [p \in Procs |-> NULL]
    /\ res = [p \in Procs |-> SinResultado]
    /\ intentos = 0
    /\ obsMock = SinObservacion
    /\ obsBD = SinObservacion
    /\ env \in Entornos
    /\ exportados = SinCargar
    /\ falla = NULL
    /\ informe = SinObservacion
    /\ conexion = ConexionInicial
    /\ archivos = {}
    /\ tarea = [t \in Tareas |-> SinTarea]

NextModulo ==
    \/ Cargar
    \/ \E tipo \in {"consulta", "reembolso"}, fecha \in Fechas : LlamarCupos(tipo, fecha)
    \/ \E prefijo \in {"C", "R"}, fecha \in Fechas : LlamarTurno(prefijo, fecha)
    \/ \E fecha \in Fechas : LlamarExiste(1, fecha)
    \/ \E fecha \in Fechas : LlamarDiario(toISODate(fecha))
    \/ \E fecha \in Fechas : LlamarMensual(MesDe(fecha))
    \/ \E tipo \in {"consulta", "reembolso"}, fecha \in Fechas : LlamarCrear(tipo, fecha, 1)

SpecModulo == InitModulo /\ [][NextModulo]_vars

-----------------------------------------------------------------------------
(* Durable backend with faults: a query answers {data, error}; the error   *)
(* is thrown inside the try block and the catch block returns the          *)
(* function's fallback value.                                              *)

MaxFallas == 2          \* rows in the table, runs with faults

\* the backend cannot be reached
ErrorDeRed == <<"5", "0", "3">>
\* the insert breaks the UNIQUE constraint
ErrorUnique == <<"2", "3", "5", "0", "5">>
\* .maybeSingle() found more than one row
ErrorVariasFilas == <<"P", "G", "R", "S", "T", "1", "1", "6">>

\* the error a query may report besides those of its own result
Fallas == {NULL, ErrorDeRed}

\* mutant: no catch, the value computed from data is returned
atrapar_sinCatch(error, valor, porDefecto) == valor

\* try { if (error) throw error; return valor } catch (error) { return porDefecto }
atrapar(error, valor, porDefecto) == IF error # NULL THEN porDefecto ELSE valor

SoloObsBD == UNCHANGED <<solicitudes, idCounter, tabla, pc, req, turno, res, intentos,
                         obsMock, env, exportados, informe,
                   conexion, archivos, tarea>>

\* getCuposDisponibles: an error of the configuration query or of the count
BDCupos(tipo, fecha, error) ==
    /\ falla' = error
    /\ obsBD' = Obs("getCuposDisponibles", <<tipo, fecha>>,
                    atrapar(error, getCuposDisponiblesBD(tipo, fecha), 0))
    /\ SoloObsBD

BDTurno(prefijo, fecha, error) ==
    /\ falla' = error
    /\ obsBD' = Obs("getSiguienteNumeroTurno", <<prefijo, fecha>>,
                    atrapar(error, getSiguienteNumeroTurnoBD(prefijo, fecha), NULL))
    /\ SoloObsBD

\* crearSolicitud: the row is stored unless the insert reports an error
BDCrear(datosSolicitud, error) ==
    LET e == IF error # NULL THEN error
             ELSE IF violaUnique(datosSolicitud) THEN ErrorUnique ELSE NULL
        data == atrapar(e, crearSolicitudBD(datosSolicitud), NULL)
    IN  /\ Len(tabla) < MaxFallas
        /\ falla' = e
        /\ tabla' = tabla \o data
        /\ obsBD' = Obs("crearSolicitud", <<datosSolicitud>>, data)
        /\ UNCHANGED <<solicitudes, idCounter, pc, req, turno, res, intentos,
                       obsMock, env, exportados, informe,
                   conexion, archivos, tarea>>

BDExiste(cedula, fecha, error) ==
    LET filas == SelectSeq(tabla, LAMBDA s :
                    /\ s.cedula = cedula
                    /\ fechaSQL(s.fecha_solicitud) = fechaSQL(toISODate(fecha))
                    /\ s.tipo_solicitud \in {"consulta", "ecor"})
        e == IF error # NULL THEN error
             ELSE IF Len(filas) > 1 THEN ErrorVariasFilas ELSE NULL
    IN  /\ falla' = e
        /\ obsBD' = Obs("checkExistingAppointment", <<cedula, fecha>>,
                        atrapar(e, checkExistingAppointmentBD(cedula, fecha), FALSE))
        /\ SoloObsBD

BDDiario(fechaString, error) ==
    /\ falla' = error
    /\ obsBD' = Obs("getDatosReporteDiario", <<fechaString>>,
                    atrapar(error, getDatosReporteDiarioBD(fechaString), <<>>))
    /\ SoloObsBD

BDMensual(mesString, error) ==
    /\ falla' = error
    /\ obsBD' = Obs("getDatosReporteMensual", <<mesString>>,
                    atrapar(error, getDatosReporteMensualBD(mesString), <<>>))
    /\ SoloObsBD

\* the datosSolicitud of a request whose ticket number was read from the table
datosBDDe(tipo, fecha, cedula) ==
    datosDe([tipo |-> tipo, fecha |-> fecha, cedula |-> cedula],
            getSiguienteNumeroTurnoBD(prefijoDe(tipo), fecha))

NextFallas ==
    \E error \in Fallas :
        \/ \E tipo \in {"consulta", "reembolso"}, fecha \in Fechas : BDCupos(tipo, fecha, error)
        \/ \E prefijo \in {"C", "R"}, fecha \in Fechas : BDTurno(prefijo, fecha, error)
        \/ \E tipo \in {"consulta", "reembolso"}, fecha \in Fechas :
                BDCrear(datosBDDe(tipo, fecha, 1), error)
        \/ \E fecha \in Fechas : BDExiste(1, fecha, error)
        \/ \E fecha \in Fechas : BDDiario(toISODate(fecha), error)
        \/ \E fecha \in Fechas : BDMensual(MesDe(fecha), error)

SpecFallas == Init /\ [][NextFallas]_vars

-----------------------------------------------------------------------------
(* Reported day: index.js, getReportDateString.  `ahora` is built from the *)
(* wall clock of America/Caracas, so its local calendar fields are the     *)
(* trigger day; getDay, getDate, setDate and toLocaleDateString all work   *)
(* on those local fields.                                                  *)

NumAnios == 2           \* consecutive years of trigger days

\* fecha.getDate(): day of the month
getDate(fecha) == fecha.d

\* mutant: day 0 and below go to the previous month but the year is kept
setDate_sinAnio(fecha, n) ==
    IF n >= 1 THEN [fecha EXCEPT !.d = n]
    ELSE LET m == IF fecha.m = 1 THEN 12 ELSE fecha.m - 1
         IN  [fecha EXCEPT !.m = m, !.d = diasDelMes(fecha.y, m) + n]

\* fecha.setDate(n) for n below the length of the month: day n of the month;
\* day 0 is the last day of the previous month, day -1 the one before, ...
setDate(fecha, n) ==
    IF n >= 1 THEN [fecha EXCEPT !.d = n]
    ELSE LET y == IF fecha.m = 1 THEN fecha.y - 1 ELSE fecha.y
             m == IF fecha.m = 1 THEN 12 ELSE fecha.m - 1
         IN  [fecha EXCEPT !.y = y, !.m = m, !.d = diasDelMes(y, m) + n]

\* fecha.toLocaleDateString('en-CA'): YYYY-MM-DD of the local calendar date
toLocaleDateString(fecha) ==
    padStart(String(fecha.y), 4, "0") \o <<"-">> \o padStart(String(fecha.m), 2, "0")
        \o <<"-">> \o padStart(String(fecha.d), 2, "0")

\* mutant: no case for Monday, always the day before
getReportDateString_siempreAyer(ahora) ==
    toLocaleDateString(setDate(ahora, getDate(ahora) - 1))

getReportDateString(ahora) ==
    LET fechaDelReporte ==
            IF getDay(ahora) = 1
            THEN setDate(ahora, getDate(ahora) - 3)
            ELSE setDate(ahora, getDate(ahora) - 1)
    IN  toLocaleDateString(fechaDelReporte)

\* every day of NumAnios consecutive years and of 2100, not a leap year
DiasDisparo ==
    {Fecha(y, m, d) : y \in (2023..(2022 + NumAnios)) \cup {2100}, m \in 1..12, d \in 1..31}

\* the report job fires on day `ahora`
Disparar(ahora) ==
    /\ ahora.d <= diasDelMes(ahora.y, ahora.m)
    /\ informe' = Obs("getReportDateString", <<ahora>>, getReportDateString(ahora))
    /\ UNCHANGED <<solicitudes, idCounter, tabla, pc, req, turno, res, intentos,
                   obsMock, obsBD, env, exportados, falla,
                   conexion, archivos, tarea>>

NextDisparo == \E ahora \in DiasDisparo : Disparar(ahora)

SpecDisparo == Init /\ [][NextDisparo]_vars

-----------------------------------------------------------------------------
(* Report workbook: reportGenerator.js, createExcelReport.  Each sheet     *)
(* receives the rows one filter of `datos` keeps.                          *)

MaxFilas == 3           \* records passed to createExcelReport

\* mutant: the sheet of consultations also takes the annual exams
consultasData_conEcor(datos) ==
    SelectSeq(datos, LAMBDA d : d.tipo_solicitud \in {"consulta", "ecor"})

\* datos.filter(d => d.tipo_solicitud === 'consulta')
consultasData(datos) == SelectSeq(datos, LAMBDA d : d.tipo_solicitud = "consulta")

ecorData(datos) == SelectSeq(datos, LAMBDA d : d.tipo_solicitud = "ecor")

reembolsosData(datos) == SelectSeq(datos, LAMBDA d : d.tipo_solicitud = "reembolso")

emergenciasData(datos) == SelectSeq(datos, LAMBDA d : d.tipo_solicitud = "emergencia")

\* the rows added to each worksheet, and the path the workbook is written to
createExcelReport(datos, fechaString) ==
    [Consultas |-> consultasData(datos),
     ECOR |-> ecorData(datos),
     Reembolsos |-> reembolsosData(datos),
     Emergencias |-> emergenciasData(datos),
     filePath |-> <<"Reporte_Diario_">> \o fechaString \o <<".xlsx">>]

\* tipo_solicitud of a record: one of the four types, or something else
TiposDeFila == Tipos \cup {"otro"}

\* sequences of up to MaxFilas records, told apart by their id
DatosDeInforme ==
    UNION {{[i \in 1..n |-> [id |-> i, tipo_solicitud |-> f[i]]] : f \in [1..n -> TiposDeFila]}
            : n \in 0..MaxFilas}

GenerarExcel(datos, fechaString) ==
    /\ informe' = Obs("createExcelReport", <<datos, fechaString>>,
                      createExcelReport(datos, fechaString))
    /\ UNCHANGED <<solicitudes, idCounter, tabla, pc, req, turno, res, intentos,
                   obsMock, obsBD, env, exportados, falla,
                   conexion, archivos, tarea>>

NextExcel == \E datos \in DatosDeInforme : GenerarExcel(datos, toISODate(Jueves))

SpecExcel == Init /\ [][NextExcel]_vars

-----------------------------------------------------------------------------
(* Ticket sequences: records of every type and date are inserted in both   *)
(* backends, each with the ticket number its backend gives, and the next   *)
(* ticket number is read.                                                  *)

MaxTurnos == 3          \* records in each store, ticket runs

CrearConTurno(tipo, fecha, cedula, max) ==
    Crear(datosDirectos(tipo, fecha, cedula), datosBDDe(tipo, fecha, cedula), max)

NextTurnos ==
    \/ \E tipo \in Tipos, fecha \in Fechas : CrearConTurno(tipo, fecha, 1, MaxTurnos)
    \/ \E prefijo \in {"C", "R"}, fecha \in Fechas : OpTurno(prefijo, fecha)

SpecTurnos == Init /\ [][NextTurnos]_vars

-----------------------------------------------------------------------------
(* Dates whose local calendar day is not their UTC calendar day *)

MaxZona == 2            \* records in each store, time zone runs

\* local calendar day minus UTC calendar day of an instant: -1 west of
\* Greenwich late in the local evening, 1 east of it early in the morning
Desfases == {-1, 0, 1}

\* the instant of a UTC calendar date seen from a time zone
FechaConDesfase(fecha, off) == [fecha EXCEPT !.off = off]

FechasConDesfase == {FechaConDesfase(f, off) : f \in Fechas, off \in Desfases}

\* bookings in both backends, and capacity asked at instants of any offset
NextZona ==
    \/ \E tipo \in Tipos, fecha \in Fechas : CrearConTurno(tipo, fecha, 1, MaxZona)
    \/ \E tipo \in {"consulta", "reembolso"}, fecha \in FechasConDesfase : OpCupos(tipo, fecha)

SpecZona == Init /\ [][NextZona]_vars

-----------------------------------------------------------------------------
(* Connection to WhatsApp: index.js *)

MaxLlamadas == 6        \* calls of connectToWhatsApp

\* DisconnectReason of the Baileys library: the status codes of a close
DisconnectReason == [loggedOut |-> 401, connectionClosed |-> 428, restartRequired |-> 515]

\* JavaScript values: undefined, booleans, numbers, strings and objects
Booleano(b) == [tipo |-> "boolean", valor |-> b]
Numero(n) == [tipo |-> "number", valor |-> n]
Cadena(s) == [tipo |-> "string", valor |-> s]
Objeto(clase, campos) == [tipo |-> "object", clase |-> clase, campos |-> campos]

\* new Boom(..., { statusCode }): the error Baileys closes a connection with
Boom(statusCode) == Objeto("Boom", [output |-> Objeto("Object", [statusCode |-> Numero(statusCode)])])

\* an error that is not a Boom
ErrorSimple == Objeto("Error", [message |-> Cadena("timeout")])

\* valor instanceof clase: a boolean
instanceof(valor, clase) == valor.tipo = "object" /\ valor.clase = clase

\* valor?.nombre: undefined for undefined, and for a value without that property
encadenar(valor, nombre) ==
    IF valor.tipo = "object" /\ nombre \in DOMAIN valor.campos
    THEN valor.campos[nombre]
    ELSE undefined

\* (lastDisconnect.error instanceof Boom)?.output?.statusCode !== DisconnectReason.loggedOut
shouldReconnect(lastDisconnect) ==
    encadenar(encadenar(Booleano(instanceof(lastDisconnect.campos.error, "Boom")), "output"),
              "statusCode")
        # Numero(DisconnectReason.loggedOut)

\* the errors a connection closes with
ErroresDeCierre ==
    {Boom(DisconnectReason.loggedOut), Boom(DisconnectReason.connectionClosed),
     Boom(DisconnectReason.restartRequired), ErrorSimple, undefined}

\* the 'connection.update' events a socket emits
Actualizaciones ==
    {[connection |-> Cadena("close"),
      lastDisconnect |-> Objeto("Object", [error |-> e]),
      qr |-> undefined] : e \in ErroresDeCierre}
    \cup {[connection |-> Cadena(c), lastDisconnect |-> undefined, qr |-> undefined] :
            c \in {"open", "connecting"}}
    \cup {[connection |-> undefined, lastDisconnect |-> undefined, qr |-> Cadena("2@qr")]}

\* connectToWhatsApp(): a socket with its handlers, or on an error of the
\* set-up the retry timer of the catch block
connectToWhatsApp(c, exito) ==
    [c EXCEPT !.llamadas = @ + 1,
              !.sockets = IF exito THEN @ + 1 ELSE @,
              !.temporizadores = IF exito THEN @ ELSE @ + 1]

\* sock.ev.on('connection.update', ...): the whole handler
ConnectionUpdate(update, exito) ==
    /\ conexion.sockets > 0
    /\ conexion.llamadas < MaxLlamadas
    /\ LET visto == [conexion EXCEPT !.evento = update, !.reconecta = FALSE]
       IN  conexion' =
              IF update.connection = Cadena("close") /\ shouldReconnect(update.lastDisconnect)
              THEN [connectToWhatsApp(visto, exito) EXCEPT !.reconecta = TRUE]
              ELSE visto
    /\ UNCHANGED <<solicitudes, idCounter, tabla, pc, req, turno, res, intentos,
                   obsMock, obsBD, env, exportados, falla, informe, archivos, tarea>>

\* setTimeout(connectToWhatsApp, 15000) fires
Reintentar(exito) ==
    /\ conexion.temporizadores > 0
    /\ conexion.llamadas < MaxLlamadas
    /\ conexion' = connectToWhatsApp([conexion EXCEPT !.temporizadores = @ - 1], exito)
    /\ UNCHANGED <<solicitudes, idCounter, tabla, pc, req, turno, res, intentos,
                   obsMock, obsBD, env, exportados, falla, informe, archivos, tarea>>

NextConexion ==
    \/ \E update \in Actualizaciones, exito \in BOOLEAN : ConnectionUpdate(update, exito)
    \/ \E exito \in BOOLEAN : Reintentar(exito)

SpecConexion == Init /\ [][NextConexion]_vars

-----------------------------------------------------------------------------
(* In-memory backend: reads with valid and invalid arguments *)

\* the value is a Date: fecha.getDay() and fecha.toISOString() can be called
esDate(valor) == "off" \in DOMAIN valor

\* a Date, or undefined: a caller that passes no date
FechasOUndefined == Fechas \cup {undefined}

\* getCuposDisponibles: fecha.getDay() throws on undefined, the catch returns 0
LeerCupos(tipo, fecha) ==
    /\ obsMock' = Obs("getCuposDisponibles", <<tipo, fecha>>,
                      IF esDate(fecha) THEN getCuposDisponibles(tipo, fecha) ELSE 0)
    /\ SoloObsMock

\* a getSiguienteNumeroTurno that keeps the number it gives by advancing
\* idCounter: not the one of mockData.js
LeerTurno_reserva(prefijo, fecha) ==
    /\ obsMock' = Obs("getSiguienteNumeroTurno", <<prefijo, fecha>>,
                      IF esDate(fecha) THEN getSiguienteNumeroTurno(prefijo, fecha) ELSE NULL)
    /\ idCounter' = idCounter + 1
    /\ UNCHANGED <<solicitudes, tabla, pc, req, turno, res, intentos, obsBD>>
    /\ UNCHANGED resto

\* getSiguienteNumeroTurno: fecha.toISOString() throws on undefined, the catch
\* returns null
LeerTurno(prefijo, fecha) ==
    /\ obsMock' = Obs("getSiguienteNumeroTurno", <<prefijo, fecha>>,
                      IF esDate(fecha) THEN getSiguienteNumeroTurno(prefijo, fecha) ELSE NULL)
    /\ SoloObsMock

\* checkExistingAppointment: fecha.toISOString() throws on undefined, the
\* catch returns false
LeerExiste(cedula, fecha) ==
    /\ obsMock' = Obs("checkExistingAppointment", <<cedula, fecha>>,
                      IF esDate(fecha) THEN checkExistingAppointment(cedula, fecha) ELSE FALSE)
    /\ SoloObsMock

\* getDatosReporteDiario(undefined): no record has an undefined date
LeerDiarioSinFecha ==
    /\ obsMock' = Obs("getDatosReporteDiario", <<undefined>>, <<>>)
    /\ SoloObsMock

\* getDatosReporteMensual(undefined): mesString.split throws, the catch
\* returns []
LeerMensualSinMes ==
    /\ obsMock' = Obs("getDatosReporteMensual", <<undefined>>, <<>>)
    /\ SoloObsMock

NextLecturas ==
    \/ \E tipo \in Tipos, fecha \in Fechas : MockCrear(datosDirectos(tipo, fecha, 1))
    \/ resetMockData
    \/ \E tipo \in TiposConCupo, fecha \in FechasOUndefined : LeerCupos(tipo, fecha)
    \/ \E prefijo \in {"C", "R"}, fecha \in FechasOUndefined : LeerTurno(prefijo, fecha)
    \/ \E fecha \in FechasOUndefined : LeerExiste(1, fecha)
    \/ \E fecha \in Fechas : MockDiario(toISODate(fecha))
    \/ LeerDiarioSinFecha
    \/ \E fecha \in Fechas : MockMensual(MesDe(fecha))
    \/ LeerMensualSinMes

SpecLecturas == Init /\ [][NextLecturas]_vars

-----------------------------------------------------------------------------
(* Report files: reportGenerator.js.  Each await of a report function is a *)
(* step; calls of the cron trigger and of the WhatsApp commands interleave. *)

FuncionesDeInforme ==
    {"generateAndEmailReport", "generateAndSendReports", "generateAndSendMonthlyReport"}

\* the delivery steps of a report function, in the order of its code
EntregasDe(fn) ==
    IF fn = "generateAndEmailReport" THEN <<"email">>
    ELSE IF fn = "generateAndSendReports" THEN <<"whatsapp", "email">>
    ELSE <<"whatsapp">>

\* what follows the deliveries made so far: the next one, or the unlink
despuesDe(fn, entregas) ==
    IF Len(entregas) < Len(EntregasDe(fn))
    THEN EntregasDe(fn)[Len(entregas) + 1]
    ELSE "unlink"

\* the name createExcelReport is given: the date, or MENSUAL_ and the month
nombreDe(fn, arg) ==
    IF fn = "generateAndSendMonthlyReport" THEN <<"MENSUAL_">> \o arg ELSE arg

\* the catch block of a report function, or its return: the call is over
terminar(t, fin) == [tarea EXCEPT ![t].pc = "libre", ![t].datos = <<>>, ![t].fin = fin]

SoloTarea == UNCHANGED <<solicitudes, idCounter, tabla, pc, req, turno, res, intentos,
                         obsMock, obsBD, env, exportados, falla, informe, conexion>>

\* a report function is called
Iniciar(t, fn, arg) ==
    /\ tarea[t].pc = "libre"
    /\ tarea' = [tarea EXCEPT ![t] = [SinTarea EXCEPT !.fn = fn, !.arg = arg, !.pc = "datos"]]
    /\ UNCHANGED archivos
    /\ SoloTarea

\* await getDatosReporteDiario(fechaString) / getDatosReporteMensual(monthYearString);
\* without data generateAndEmailReport returns, the others send a text first
ObtenerDatos(t) ==
    /\ tarea[t].pc = "datos"
    /\ LET fn == tarea[t].fn
           datos == IF fn = "generateAndSendMonthlyReport"
                    THEN getDatosReporteMensual(tarea[t].arg)
                    ELSE getDatosReporteDiario(tarea[t].arg)
       IN  tarea' =
              IF Len(datos) = 0
              THEN IF fn = "generateAndEmailReport"
                   THEN terminar(t, "sin-datos")
                   ELSE [tarea EXCEPT ![t].pc = "aviso"]
              ELSE [tarea EXCEPT ![t].pc = "crear", ![t].datos = datos]
    /\ UNCHANGED archivos
    /\ SoloTarea

\* await sock.sendMessage(recipientJid, { text: ... }): no requests that day
Avisar(t, exito) ==
    /\ tarea[t].pc = "aviso"
    /\ tarea' = terminar(t, IF exito THEN "sin-datos" ELSE "error")
    /\ UNCHANGED archivos
    /\ SoloTarea

\* await createExcelReport(datos, nombre): workbook.xlsx.writeFile(filePath)
CrearArchivo(t, exito) ==
    /\ tarea[t].pc = "crear"
    /\ LET filePath == createExcelReport(tarea[t].datos, nombreDe(tarea[t].fn, tarea[t].arg)).filePath
       IN  IF exito
           THEN /\ archivos' = archivos \cup {filePath}
                /\ tarea' = [tarea EXCEPT ![t].filePath = filePath,
                                          ![t].pc = despuesDe(tarea[t].fn, <<>>)]
           ELSE /\ UNCHANGED archivos
                /\ tarea' = terminar(t, "error")
    /\ SoloTarea

\* a delivery step reads the file; it went well, or it threw into the catch
entregar(t, paso, exito) ==
    IF exito /\ tarea[t].filePath \in archivos
    THEN LET entregas == Append(tarea[t].entregas, paso)
         IN  [tarea EXCEPT ![t].entregas = entregas,
                           ![t].pc = despuesDe(tarea[t].fn, entregas)]
    ELSE terminar(t, "error")

\* await sock.sendMessage(recipientJid, { document: { url: filePath }, ... })
EnviarDocumento(t, exito) ==
    /\ tarea[t].pc = "whatsapp"
    /\ tarea' = entregar(t, "whatsapp", exito)
    /\ UNCHANGED archivos
    /\ SoloTarea

\* a sendEmailWithAttachment whose failure removes the file: not the one of
\* reportGenerator.js
sendEmailWithAttachment_limpia(t, exito) ==
    /\ tarea[t].pc = "email"
    /\ tarea' = entregar(t, "email", exito)
    /\ archivos' = IF exito THEN archivos ELSE archivos \ {tarea[t].filePath}
    /\ SoloTarea

\* await sendEmailWithAttachment(filePath, fechaDisplay)
sendEmailWithAttachment(t, exito) ==
    /\ tarea[t].pc = "email"
    /\ tarea' = entregar(t, "email", exito)
    /\ UNCHANGED archivos
    /\ SoloTarea

\* fs.unlinkSync(filePath): throws into the catch when the file is gone
Unlink(t) ==
    /\ tarea[t].pc = "unlink"
    /\ IF tarea[t].filePath \in archivos
       THEN /\ archivos' = archivos \ {tarea[t].filePath}
            /\ tarea' = terminar(t, "ok")
       ELSE /\ UNCHANGED archivos
            /\ tarea' = terminar(t, "error")
    /\ SoloTarea

\* the arguments of the report functions: a day, or its month
ArgumentosDe(fn) ==
    IF fn = "generateAndSendMonthlyReport" THEN {MesDe(Miercoles)} ELSE {toISODate(Miercoles)}

NextArchivos ==
    \/ \E fecha \in Fechas : MockCrear(datosDirectos("consulta", fecha, 1))
    \/ \E t \in Tareas, fn \in FuncionesDeInforme : \E arg \in ArgumentosDe(fn) :
            Iniciar(t, fn, arg)
    \/ \E t \in Tareas : ObtenerDatos(t)
    \/ \E t \in Tareas, exito \in BOOLEAN : Avisar(t, exito)
    \/ \E t \in Tareas, exito \in BOOLEAN : CrearArchivo(t, exito)
    \/ \E t \in Tareas, exito \in BOOLEAN : EnviarDocumento(t, exito)
    \/ \E t \in Tareas, exito \in BOOLEAN : sendEmailWithAttachment(t, exito)
    \/ \E t \in Tareas : Unlink(t)

SpecArchivos == Init /\ [][NextArchivos]_vars

-----------------------------------------------------------------------------
(* The daily trigger: GET /trigger-report of index.js, once every day *)

MaxDias == 70           \* consecutive days on which the trigger fires

\* process.env.CRON_SECRET, and the secrets a request may carry
CRON_SECRET == "clave"
Secretos == {"clave", "otra"}

\* the day of the first trigger: the last week of 2023
PrimerDia == Fecha(2023, 12, 25)

\* the calendar day after a day
diaSiguiente(fecha) ==
    IF fecha.d < diasDelMes(fecha.y, fecha.m) THEN [fecha EXCEPT !.d = @ + 1]
    ELSE IF fecha.m < 12 THEN [fecha EXCEPT !.m = @ + 1, !.d = 1]
    ELSE [fecha EXCEPT !.y = @ + 1, !.m = 1, !.d = 1]

\* the days on which a trigger was accepted, and the dates they reported
diasDeDisparo == IF informe.op = "trigger-report" THEN informe.args ELSE <<>>
fechasReportadas == IF informe.op = "trigger-report" THEN informe.val.fechas ELSE <<>>

\* the day of the cron job's next request
hoy ==
    IF diasDeDisparo = <<>> THEN PrimerDia
    ELSE diaSiguiente(diasDeDisparo[Len(diasDeDisparo)])

\* app.get('/trigger-report'): 401 on a wrong secret; else 202, the report
\* date of the day and generateAndEmailReport(fechaString) in the background
TriggerReport(t, ahora, secret) ==
    /\ Len(diasDeDisparo) < MaxDias
    /\ tarea[t].pc = "libre"
    /\ IF secret # CRON_SECRET
       THEN /\ informe' = Obs("trigger-report", diasDeDisparo,
                              [status |-> 401, fechas |-> fechasReportadas])
            /\ UNCHANGED tarea
       ELSE LET fechaString == getReportDateString(ahora)
            IN  /\ informe' = Obs("trigger-report", Append(diasDeDisparo, ahora),
                                  [status |-> 202,
                                   fechas |-> Append(fechasReportadas, fechaString)])
                /\ tarea' = [tarea EXCEPT ![t] =
                                [SinTarea EXCEPT !.fn = "generateAndEmailReport",
                                                 !.arg = fechaString, !.pc = "datos"]]
    /\ UNCHANGED <<solicitudes, idCounter, tabla, pc, req, turno, res, intentos,
                   obsMock, obsBD, env, exportados, falla, conexion, archivos>>

\* the cron job calls once a day; the report of a day is over before the next
NextDiario ==
    \/ \E secret \in Secretos : TriggerReport("t1", hoy, secret)
    \/ ObtenerDatos("t1")

SpecDiario == Init /\ [][NextDiario]_vars

-----------------------------------------------------------------------------
(* Properties *)

Familias == {{"consulta", "ecor"}, {"reembolso"}}

FechasISO == {toISODate(f) : f \in Fechas}

\* the records of one ticket family on one date, in ledger order
FilasDe(familia, fechaISO) ==
    SelectSeq(solicitudes, LAMBDA s : s.tipo_solicitud \in familia /\ s.fecha_solicitud = fechaISO)

\* the number after the "<prefix>-" of a ticket
NumeroDe(numero_turno) == parseInt(SubSeq(numero_turno, 3, Len(numero_turno)))

capacidadDe(familia, fecha) ==
    IF familia = {"reembolso"} THEN cupos_reembolso
    ELSE IF diaDeLaSemana(fecha.y, fecha.m, fecha.d) = 3 THEN cupos_consulta_miercoles
    ELSE cupos_consulta

familiaDe(tipo) == IF tipo = "reembolso" THEN {"reembolso"} ELSE {"consulta", "ecor"}

\* the state from which the concurrent capacity scenario starts is one the
\* one-at-a-time scenario reaches
LibroPrevioAlcanzado ==
    /\ solicitudes = LibroPrevio
    /\ idCounter = ConsultasPrevias + 1
    /\ intentos = ConsultasPrevias
    /\ pc[Escritor] = "libre"

\* C2: no two records of the same date and ticket family carry the same
\* ticket number, whatever the interleaving of concurrent bookings.
C2_TurnoUnico ==
    \A i, j \in 1..Len(solicitudes) :
        ( /\ i # j
          /\ solicitudes[i].tipo_solicitud # "emergencia"
          /\ solicitudes[j].tipo_solicitud # "emergencia"
          /\ solicitudes[i].fecha_solicitud = solicitudes[j].fecha_solicitud
          /\ familiaDe(solicitudes[i].tipo_solicitud) = familiaDe(solicitudes[j].tipo_solicitud) )
        => solicitudes[i].numero_turno # solicitudes[j].numero_turno

\* C3: booking one at a time for one type and date, attempt number k succeeds
\* iff k is at most the limit of that type and date (10 for the consultation
\* family on a Wednesday), and fails with CapacityExceededError otherwise.
C3_CupoExacto ==
    (pc[Escritor] = "libre" /\ intentos >= 1) =>
        LET tipo  == solicitudes[1].tipo_solicitud
            fecha == CHOOSE f \in Fechas : toISODate(f) = solicitudes[1].fecha_solicitud
            limite == capacidadDe(familiaDe(tipo), fecha)
        IN  /\ (intentos <= limite) =>
                    /\ res[Escritor].estado = "ok"
                    /\ Len(solicitudes) = intentos
            /\ (intentos > limite) =>
                    /\ res[Escritor].estado = "CapacityExceededError"
                    /\ Len(solicitudes) = limite

\* the 10th consultation of the Wednesday was booked and the 11th rejected
C3_Testigo ==
    /\ intentos = cupos_consulta_miercoles + 1
    /\ res[Escritor].estado = "CapacityExceededError"
    /\ Len(solicitudes) = cupos_consulta_miercoles
    /\ solicitudes[1].tipo_solicitud = "consulta"
    /\ solicitudes[1].fecha_solicitud = toISODate(Miercoles)

\* C4: the records of a ticket family on a date never exceed the limit of
\* that family and date, whatever the interleaving of concurrent bookings.
C4_NuncaSobrecupo ==
    \A familia \in Familias, fecha \in Fechas :
        Len(FilasDe(familia, toISODate(fecha))) <= capacidadDe(familia, fecha)

\* the ledger holds a consultation of this patient on this date
TieneConsulta(cedula, fecha) ==
    \E i \in 1..Len(solicitudes) :
        /\ solicitudes[i].tipo_solicitud = "consulta"
        /\ solicitudes[i].cedula = cedula
        /\ solicitudes[i].fecha_solicitud = toISODate(fecha)

\* handler p returns in this step
Termina(p) == pc[p] # "libre" /\ pc'[p] = "libre"

\* C5: once a consultation of a patient on a date is in the ledger, a later
\* consultation or annual exam booking of that patient and date ends with
\* DuplicateBookingError and inserts nothing, while a later reimbursement
\* booking of that patient and date is inserted.
C5_GuardaDuplicados ==
    [][\A p \in Procs :
        (Termina(p) /\ TieneConsulta(req[p].cedula, req[p].fecha)) =>
            /\ req[p].tipo \in {"consulta", "ecor"} =>
                    /\ res'[p].estado = "DuplicateBookingError"
                    /\ solicitudes' = solicitudes
            /\ req[p].tipo = "reembolso" =>
                    /\ res'[p].estado = "ok"
                    /\ Len(solicitudes') = Len(solicitudes) + 1
                    /\ solicitudes'[Len(solicitudes')].tipo_solicitud = "reembolso"
                    /\ solicitudes'[Len(solicitudes')].cedula = req[p].cedula]_vars

\* a consultation, then a reimbursement of the same patient and date that was
\* inserted, then a booking of that patient and date rejected as a duplicate
C5_Testigo ==
    /\ res[Escritor].estado = "DuplicateBookingError"
    /\ \E i, j \in 1..Len(solicitudes) :
            /\ i < j
            /\ solicitudes[i].tipo_solicitud = "consulta"
            /\ solicitudes[j].tipo_solicitud = "reembolso"
            /\ solicitudes[i].cedula = solicitudes[j].cedula
            /\ solicitudes[i].fecha_solicitud = solicitudes[j].fecha_solicitud
            /\ \A k \in 1..Len(solicitudes) :
                    solicitudes[k].tipo_solicitud \in {"consulta", "reembolso"}

\* C6: the ledger holds at most one consultation or annual exam record for a
\* patient on a date, whatever the interleaving of concurrent bookings.
C6_UnaCitaPorPaciente ==
    \A i, j \in 1..Len(solicitudes) :
        ( /\ solicitudes[i].tipo_solicitud \in {"consulta", "ecor"}
          /\ solicitudes[j].tipo_solicitud \in {"consulta", "ecor"}
          /\ solicitudes[i].cedula = solicitudes[j].cedula
          /\ solicitudes[i].fecha_solicitud = solicitudes[j].fecha_solicitud )
        => i = j

\* C7: an emergency booking is always inserted, and inserting it changes
\* neither the remaining capacity of any type and date, nor the next ticket
\* number of either prefix, nor the duplicate check of any patient and date.
C7_EmergenciaExenta ==
    [][\A p \in Procs :
        /\ (pc[p] = "libre" /\ req'[p].tipo = "emergencia") => pc'[p] = "insertar"
        /\ (Termina(p) /\ req[p].tipo = "emergencia") =>
            /\ res'[p].estado = "ok"
            /\ Len(solicitudes') = Len(solicitudes) + 1
            /\ solicitudes'[Len(solicitudes')].tipo_solicitud = "emergencia"
            /\ \A fecha \in Fechas :
                /\ \A tipo \in {"consulta", "reembolso"} :
                        getCuposDisponibles(tipo, fecha)' = getCuposDisponibles(tipo, fecha)
                /\ \A prefijo \in {"C", "R"} :
                        getSiguienteNumeroTurno(prefijo, fecha)'
                            = getSiguienteNumeroTurno(prefijo, fecha)
                /\ \A cedula \in Pacientes :
                        checkExistingAppointment(cedula, fecha)'
                            = checkExistingAppointment(cedula, fecha)]_vars

\* three emergencies of one patient and date were inserted
C7_Testigo ==
    /\ Len(solicitudes) = 3
    /\ res[Escritor].estado = "ok"
    /\ \A i \in 1..3 :
            /\ solicitudes[i].tipo_solicitud = "emergencia"
            /\ solicitudes[i].cedula = 1
            /\ solicitudes[i].fecha_solicitud = toISODate(Miercoles)

\* the number of records of a family on a date, counted from the ledger
Insertados(libro, familia, fechaISO) ==
    Cardinality({i \in 1..Len(libro) :
        libro[i].tipo_solicitud \in familia /\ libro[i].fecha_solicitud = fechaISO})

\* C8: every insert adds one record to the ledger, and right after the
\* insert that makes N records of a family on a date, whatever other records
\* lie between them, the remaining capacity is the limit minus N and the next
\* ticket number is N + 1.
C8_ConteoExacto ==
    (\A p \in Procs : pc[p] = "libre") =>
        /\ Len(solicitudes) = idCounter - 1
        /\ \A fecha \in Fechas :
            LET nC == Insertados(solicitudes, {"consulta", "ecor"}, toISODate(fecha))
                nR == Insertados(solicitudes, {"reembolso"}, toISODate(fecha))
            IN  /\ getCuposDisponibles("consulta", fecha) =
                        capacidadDe({"consulta", "ecor"}, fecha) - nC
                /\ getCuposDisponibles("reembolso", fecha) =
                        capacidadDe({"reembolso"}, fecha) - nR
                /\ NumeroDe(getSiguienteNumeroTurno("C", fecha)) = nC + 1
                /\ NumeroDe(getSiguienteNumeroTurno("R", fecha)) = nR + 1

\* two records of the consultation family on the Wednesday, with a record of
\* another family or date inserted between them
C8_Testigo ==
    /\ \A p \in Procs : pc[p] = "libre"
    /\ Len(solicitudes) = 3
    /\ Insertados(solicitudes, {"consulta", "ecor"}, toISODate(Miercoles)) = 2
    /\ solicitudes[1].tipo_solicitud \in {"consulta", "ecor"}
    /\ solicitudes[3].tipo_solicitud \in {"consulta", "ecor"}
    /\ getCuposDisponibles("consulta", Miercoles) = cupos_consulta_miercoles - 2

\* the records of a ledger whose date lies in month "YYYY-MM"
DelMes(libro, mes) == SelectSeq(libro, LAMBDA s : SubSeq(s.fecha_solicitud, 1, 7) = mes)

\* C9: the monthly report of month YYYY-MM holds exactly the records dated
\* from the first to the last calendar day of that month (the 29th for
\* 2024-02), in either backend, and no record of another month.
C9_InformeMensualExacto ==
    obsMock.op = "getDatosReporteMensual" =>
        /\ obsMock.val = DelMes(solicitudes, obsMock.args[1])
        /\ obsBD.val = DelMes(tabla, obsBD.args[1])

\* the report of 2024-02 on a ledger with a record of the 29th of February
\* and a record of another month
C9_Testigo ==
    /\ obsMock.op = "getDatosReporteMensual"
    /\ obsMock.args[1] = <<"2", "0", "2", "4", "-", "0", "2">>
    /\ Len(solicitudes) = 2
    /\ Len(obsMock.val) = 1
    /\ obsMock.val[1].fecha_solicitud = <<"2", "0", "2", "4", "-", "0", "2", "-", "2", "9">>
    /\ Len(obsBD.val) = 1

\* a record as the caller reads it, without the identifier the store assigned
SinId(fila) == [k \in DOMAIN fila \ {"id"} |-> fila[k]]

\* the value an operation returned, identifiers left out
Visible(obs) ==
    IF obs.op \in {"crearSolicitud", "getDatosReporteDiario", "getDatosReporteMensual"}
    THEN [i \in 1..Len(obs.val) |-> SinId(obs.val[i])]
    ELSE obs.val

\* C10: the same operations applied to the in-memory and to the durable
\* backend return the same values at every step.
C10_BackendsIguales ==
    /\ obsMock.op = obsBD.op
    /\ obsMock.args = obsBD.args
    /\ Visible(obsMock) = Visible(obsBD)

\* C11: the ledger is append-only: in every step the sequence of stored
\* records stays the same or is extended by exactly one record at the tail;
\* no operation of the exported interface removes or changes a stored record.
C11_SoloAgrega ==
    [][\/ solicitudes' = solicitudes
       \/ /\ Len(solicitudes') = Len(solicitudes) + 1
          /\ SubSeq(solicitudes', 1, Len(solicitudes)) = solicitudes]_vars

\* C12: when the limit getCuposDisponibles looks up is missing from the
\* configuration, the function returns zero remaining capacity: it does not
\* fall back to a positive limit.
C12_SinLimiteCeroCupos ==
    ( /\ obsMock.op = "getCuposDisponibles"
      /\ claveLimite(obsMock.args[1], obsMock.args[2]) \notin DOMAIN configuracion )
    => obsMock.val = 0

\* a credential is present when its variable is set to a non-empty value
ConValor == {v \in Credenciales : v # NULL /\ v # <<NULL>>}

\* C13: once database.js is loaded, all six exported operations are the
\* durable implementations when both SUPABASE_URL and SUPABASE_SERVICE_KEY
\* are present and all six are the in-memory implementations otherwise; the
\* export set never mixes the backends, and every call goes to the selected
\* backend only.
C13_SeleccionPorCredenciales ==
    exportados # SinCargar =>
        LET ambas == env.SUPABASE_URL \in ConValor /\ env.SUPABASE_SERVICE_KEY \in ConValor
        IN  /\ ambas => /\ \A op \in Operaciones : exportados[op] = "supabase"
                        /\ solicitudes = <<>>
                        /\ obsMock = SinObservacion
            /\ ~ambas => /\ \A op \in Operaciones : exportados[op] = "mock"
                         /\ tabla = <<>>
                         /\ obsBD = SinObservacion

\* with both credentials set the module was loaded, a record was inserted
\* and then read back, all on the durable backend
C13_Testigo ==
    /\ env.SUPABASE_URL \in ConValor
    /\ env.SUPABASE_SERVICE_KEY \in ConValor
    /\ exportados.crearSolicitud = "supabase"
    /\ Len(tabla) = 1
    /\ obsBD.op = "checkExistingAppointment"
    /\ obsBD.val = TRUE

\* what the caller gets when a function throws error e
Lanzado(e) == <<[lanzado |-> e]>>

\* C14: when the backend reports an error during the insert, crearSolicitud
\* surfaces that error to the caller unchanged, not a normal return value.
C14_FalloDeInsertSurge ==
    (obsBD.op = "crearSolicitud" /\ falla # NULL) => obsBD.val = Lanzado(falla)

\* days of year y before month m
RECURSIVE diasAntesDelMes(_, _)
diasAntesDelMes(y, m) == IF m = 1 THEN 0 ELSE diasAntesDelMes(y, m - 1) + diasDelMes(y, m - 1)

\* number of the day in the calendar, day 1 being Monday 0001-01-01
ordinal(y, m, d) ==
    365 * (y - 1) + ((y - 1) \div 4) - ((y - 1) \div 100) + ((y - 1) \div 400)
        + diasAntesDelMes(y, m) + d

\* C15: for every trigger day getReportDateString returns, as YYYY-MM-DD,
\* the calendar date 3 days before it when the trigger day is a Monday (a
\* Friday) and the date 1 day before it on every other weekday, across
\* month and year boundaries too.
C15_DiaReportado ==
    informe.op = "getReportDateString" =>
        LET t == informe.args[1]
            r == fechaSQL(informe.val)
            lunes == ordinal(t.y, t.m, t.d) % 7 = 1
        IN  /\ Len(informe.val) = 10
            /\ informe.val[5] = "-" /\ informe.val[8] = "-"
            /\ r[2] \in 1..12
            /\ r[3] \in 1..diasDelMes(r[1], r[2])
            /\ lunes => /\ ordinal(r[1], r[2], r[3]) = ordinal(t.y, t.m, t.d) - 3
                        /\ ordinal(r[1], r[2], r[3]) % 7 = 5
            /\ ~lunes => ordinal(r[1], r[2], r[3]) = ordinal(t.y, t.m, t.d) - 1

\* the job fired on Monday 2024-01-01 and reported Friday 2023-12-29
C15_Testigo ==
    /\ informe.op = "getReportDateString"
    /\ informe.args[1] = Fecha(2024, 1, 1)
    /\ getDay(informe.args[1]) = 1
    /\ informe.val = <<"2", "0", "2", "3", "-", "1", "2", "-", "2", "9">>

\* the worksheet that is the bucket of a type
HojaDe(tipo) ==
    IF tipo = "consulta" THEN "Consultas"
    ELSE IF tipo = "ecor" THEN "ECOR"
    ELSE IF tipo = "reembolso" THEN "Reembolsos" ELSE "Emergencias"

\* the k-th smallest element of a set of positions
Kesimo(posiciones, k) ==
    CHOOSE i \in posiciones : Cardinality({j \in posiciones : j < i}) = k - 1

\* C16: createExcelReport partitions the input by tipo_solicitud: the bucket
\* of each of the four types holds exactly the input records of that type,
\* once each and in input order, so every record of one of the four types is
\* in the bucket of its type and in no other, and the four buckets together
\* hold exactly the input records of the four types.
C16_Particion ==
    informe.op = "createExcelReport" =>
        LET datos == informe.args[1]
            hojas == informe.val
        IN  /\ \A tipo \in Tipos :
                LET pos == {i \in 1..Len(datos) : datos[i].tipo_solicitud = tipo}
                    hoja == hojas[HojaDe(tipo)]
                IN  /\ Len(hoja) = Cardinality(pos)
                    /\ \A k \in 1..Len(hoja) : hoja[k] = datos[Kesimo(pos, k)]
            /\ \A i \in 1..Len(datos), tipo \in Tipos :
                LET veces == Cardinality({k \in 1..Len(hojas[HojaDe(tipo)]) :
                                            hojas[HojaDe(tipo)][k] = datos[i]})
                IN  veces = (IF datos[i].tipo_solicitud = tipo THEN 1 ELSE 0)
            /\ Len(hojas.Consultas) + Len(hojas.ECOR) + Len(hojas.Reembolsos)
                    + Len(hojas.Emergencias)
                = Cardinality({i \in 1..Len(datos) : datos[i].tipo_solicitud \in Tipos})

\* a report of three records: a reimbursement between two consultations
C16_Testigo ==
    /\ informe.op = "createExcelReport"
    /\ Len(informe.args[1]) = 3
    /\ Len(informe.val.Consultas) = 2
    /\ informe.val.Consultas[1].id = 1
    /\ informe.val.Consultas[2].id = 3
    /\ Len(informe.val.Reembolsos) = 1
    /\ informe.val.ECOR = <<>>

\* C17: the ids of the records in the in-memory ledger are pairwise
\* different, whatever datosSolicitud the callers of crearSolicitud passed.
C17_IdUnico ==
    \A i, j \in 1..Len(solicitudes) :
        i # j => solicitudes[i].id # solicitudes[j].id

\* C18: the remaining capacity getCuposDisponibles returns for a type is the
\* limit of the type's family on that date (Wednesday override included for
\* the consultation family) minus the records of that family on that date:
\* for ecor as for consulta, the family is {consulta, ecor}.
C18_CuposPorFamilia ==
    obsMock.op = "getCuposDisponibles" =>
        LET tipo == obsMock.args[1]
            fecha == obsMock.args[2]
        IN  obsMock.val = capacidadDe(familiaDe(tipo), fecha)
                            - Insertados(solicitudes, familiaDe(tipo), toISODate(fecha))

\* the ticket family a prefix numbers
familiaDelPrefijo(prefijo) == IF prefijo = "R" THEN {"reembolso"} ELSE {"consulta", "ecor"}

\* n below 1000 written with three digits
TresDigitos(n) ==
    <<Digitos[(n \div 100) + 1], Digitos[((n \div 10) % 10) + 1], Digitos[(n % 10) + 1]>>

\* the ticket a prefix's family gets on a date when it has n records there
TurnoEsperado(prefijo, n) == <<prefijo, "-">> \o TresDigitos(n + 1)

\* C19: in both backends the ticket number getSiguienteNumeroTurno(prefix,
\* date) returns is determined by the number n of records of the prefix's
\* family on that date alone, and is n + 1: consulta and ecor records count
\* for the one C sequence, reembolso records for the R sequence, and records
\* of the other family, of type emergencia or of another date, whatever
\* their number and position in the ledger, do not change it; while a
\* family has no record on a date its number is 001.
C19_TurnoSoloPorFamiliaYFecha ==
    \A prefijo \in {"C", "R"}, fecha \in Fechas :
        LET familia == familiaDelPrefijo(prefijo)
            n == Insertados(solicitudes, familia, toISODate(fecha))
            nBD == Insertados(tabla, familia, toISODate(fecha))
        IN  /\ n = 0 => getSiguienteNumeroTurno(prefijo, fecha) = <<prefijo, "-", "0", "0", "1">>
            /\ nBD = 0 => getSiguienteNumeroTurnoBD(prefijo, fecha) = <<prefijo, "-", "0", "0", "1">>
            /\ getSiguienteNumeroTurno(prefijo, fecha) = TurnoEsperado(prefijo, n)
            /\ getSiguienteNumeroTurnoBD(prefijo, fecha) = TurnoEsperado(prefijo, nBD)

\* after a consultation, an annual exam and an emergency on the Wednesday
\* and nothing on the Thursday, the next C ticket of the Wednesday is C-003
\* in both backends
C19_Testigo ==
    /\ Len(solicitudes) = 3
    /\ Len(tabla) = 3
    /\ \A i \in 1..3 : solicitudes[i].fecha_solicitud = toISODate(Miercoles)
    /\ {solicitudes[i].tipo_solicitud : i \in 1..3} = {"consulta", "ecor", "emergencia"}
    /\ obsMock.op = "getSiguienteNumeroTurno"
    /\ obsMock.args = <<"C", Miercoles>>
    /\ obsMock.val = <<"C", "-", "0", "0", "3">>
    /\ obsBD.val = <<"C", "-", "0", "0", "3">>
    /\ getSiguienteNumeroTurno("C", Jueves) = <<"C", "-", "0", "0", "1">>

\* C20: a result that reads as 'capacity exceeded' (remaining <= 0) is
\* returned only when no error was reported and the limit minus the actual
\* count is <= 0; 'duplicate' (true) only when a matching record exists, and
\* 'no duplicate' (false) only when no error was reported: an error of the
\* backend during these reads is never presented as a business outcome.
C20_FallaDistinguible ==
    /\ (obsBD.op = "getCuposDisponibles" /\ obsBD.val <= 0) =>
            /\ falla = NULL
            /\ capacidadDe(familiaDe(obsBD.args[1]), obsBD.args[2])
                - Insertados(tabla, familiaDe(obsBD.args[1]), toISODate(obsBD.args[2])) <= 0
    /\ (obsBD.op = "checkExistingAppointment" /\ obsBD.val) =>
            \E i \in 1..Len(tabla) :
                /\ tabla[i].cedula = obsBD.args[1]
                /\ tabla[i].fecha_solicitud = toISODate(obsBD.args[2])
                /\ tabla[i].tipo_solicitud \in {"consulta", "ecor"}
    /\ (obsBD.op = "checkExistingAppointment" /\ ~obsBD.val) => falla = NULL

\* C21: for every Date passed to getCuposDisponibles, in both backends, the
\* Wednesday limit of consultations is the one applied exactly when the
\* calendar date under which the bookings are counted and stored is a
\* Wednesday, whatever the offset between local time and UTC.
C21_LimiteDelDiaContado ==
    (obsMock.op = "getCuposDisponibles" /\ obsMock.args[1] = "consulta") =>
        LET fecha == obsMock.args[2]
            esMiercoles == diaDeLaSemana(fecha.y, fecha.m, fecha.d) = 3
            contados == Insertados(solicitudes, {"consulta", "ecor"}, toISODate(fecha))
            contadosBD == Insertados(tabla, {"consulta", "ecor"}, toISODate(fecha))
        IN  /\ (obsMock.val + contados = cupos_consulta_miercoles) <=> esMiercoles
            /\ (obsBD.val + contadosBD = cupos_consulta_miercoles) <=> esMiercoles

\* the status code a connection was closed with, undefined when the error
\* carries none
razonDeCierre(update) ==
    encadenar(encadenar(update.lastDisconnect.campos.error, "output"), "statusCode")

\* C22: when a 'connection.update' event with connection === 'close' has been
\* handled, connectToWhatsApp was called again if and only if the disconnect
\* reason is not DisconnectReason.loggedOut.
C22_ReconectaSalvoLogout ==
    conexion.evento.connection = Cadena("close") =>
        (conexion.reconecta <=> razonDeCierre(conexion.evento) # Numero(DisconnectReason.loggedOut))

\* the read operations of the in-memory backend
Lecturas ==
    {"getCuposDisponibles", "getSiguienteNumeroTurno", "checkExistingAppointment",
     "getDatosReporteDiario", "getDatosReporteMensual"}

\* C23: a call of getCuposDisponibles, getSiguienteNumeroTurno,
\* checkExistingAppointment, getDatosReporteDiario or getDatosReporteMensual
\* leaves the record sequence and idCounter of the in-memory ledger as they
\* were, when it succeeds and when it fails; a step that changes either is a
\* call of crearSolicitud or of resetMockData.
C23_LecturasSinEfecto ==
    [][/\ (obsMock'.op \in Lecturas) =>
            (solicitudes' = solicitudes /\ idCounter' = idCounter)
       /\ (solicitudes' # solicitudes \/ idCounter' # idCounter) =>
            (obsMock'.op \in {"crearSolicitud", "resetMockData"})]_vars

\* a read that failed on a ledger of two records
C23_Testigo ==
    /\ obsMock.op = "getSiguienteNumeroTurno"
    /\ obsMock.args[2] = undefined
    /\ obsMock.val = NULL
    /\ Len(solicitudes) = 2
    /\ idCounter = 3

\* the calendar days "YYYY-MM-DD" of month "YYYY-MM"
DiasCalendario(mes) ==
    LET y == parseInt(SubSeq(mes, 1, 4))
        m == parseInt(SubSeq(mes, 6, 7))
    IN  {toISODate(Fecha(y, m, d)) : d \in 1..diasDelMes(y, m)}

Elementos(lista) == {lista[i] : i \in 1..Len(lista)}

\* C24: in both backends the records getDatosReporteMensual(YYYY-MM) returns,
\* none of them twice, are exactly the records getDatosReporteDiario(d)
\* returns for the calendar days d of that month taken together, and
\* getDatosReporteDiario(d) returns exactly the records whose request date
\* is d.
C24_MensualEsUnionDeDiarios ==
    /\ obsMock.op = "getDatosReporteMensual" =>
        /\ Elementos(obsMock.val) =
                UNION {Elementos(getDatosReporteDiario(d)) : d \in DiasCalendario(obsMock.args[1])}
        /\ Cardinality(Elementos(obsMock.val)) = Len(obsMock.val)
        /\ Elementos(obsBD.val) =
                UNION {Elementos(getDatosReporteDiarioBD(d)) : d \in DiasCalendario(obsBD.args[1])}
        /\ Cardinality(Elementos(obsBD.val)) = Len(obsBD.val)
    /\ obsMock.op = "getDatosReporteDiario" =>
        /\ obsMock.val = SelectSeq(solicitudes, LAMBDA s : s.fecha_solicitud = obsMock.args[1])
        /\ obsBD.val = SelectSeq(tabla, LAMBDA s : s.fecha_solicitud = obsBD.args[1])

\* the report of 2024-02 on a ledger with records of the first and of the
\* last day of that month
C24_Testigo ==
    /\ obsMock.op = "getDatosReporteMensual"
    /\ obsMock.args[1] = <<"2", "0", "2", "4", "-", "0", "2">>
    /\ Len(obsMock.val) = 2
    /\ {obsMock.val[1].fecha_solicitud, obsMock.val[2].fecha_solicitud}
            = {toISODate(Fecha(2024, 2, 1)), toISODate(Fecha(2024, 2, 29))}
    /\ Len(obsBD.val) = 2

\* the consulta/ecor rows of the table for a patient and a date
CitasBD(cedula, fecha) ==
    {i \in 1..Len(tabla) :
        /\ tabla[i].cedula = cedula
        /\ tabla[i].fecha_solicitud = toISODate(fecha)
        /\ tabla[i].tipo_solicitud \in {"consulta", "ecor"}}

C26_ArchivoTemporal ==
    [][/\ \A t \in Tareas : (tarea[t].pc = "crear") => (Len(tarea[t].datos) > 0)
       /\ \A f \in archivos' \ archivos :
            \E t \in Tareas : tarea[t].pc = "crear" /\ tarea'[t].filePath = f
       /\ \A f \in archivos \ archivos' :
            \E t \in Tareas :
                /\ tarea[t].pc = "unlink"
                /\ tarea[t].filePath = f
                /\ tarea[t].entregas = EntregasDe(tarea[t].fn)
                /\ tarea'[t].fin = "ok"
       /\ \A t \in Tareas :
            (tarea[t].pc \in {"whatsapp", "email"} /\ tarea'[t].fin = "error") =>
                (archivos' = archivos /\ tarea'[t].pc = "libre")
       /\ (tarea' # tarea) =>
            (solicitudes' = solicitudes /\ idCounter' = idCounter /\ tabla' = tabla)]_vars

\* generateAndSendReports sent the document by WhatsApp, the email failed,
\* and the file of that day is still on disk
C26_Testigo ==
    \E t \in Tareas :
        /\ tarea[t].fn = "generateAndSendReports"
        /\ tarea[t].pc = "libre"
        /\ tarea[t].fin = "error"
        /\ tarea[t].entregas = <<"whatsapp">>
        /\ tarea[t].filePath \in archivos
        /\ \A u \in Tareas \ {t} : tarea[u].fin = "ok"

\* how many triggers reported a date
vecesReportada(fechaString) ==
    Cardinality({i \in 1..Len(fechasReportadas) : fechasReportadas[i] = fechaString})

\* C27: with the trigger fired once on every calendar day, once the triggers
\* of the three days after a date have fired, the date is the reported date
\* of at least one trigger if it falls on Monday through Saturday, of exactly
\* two (Saturday's and the following Monday's) if it is a Friday, and of none
\* if it is a Sunday; no trigger ever reports a Sunday.
C27_CoberturaSemanal ==
    /\ \A j \in 1..(Len(diasDeDisparo) - 3) :
        LET dia == diasDeDisparo[j]
            semana == diaDeLaSemana(dia.y, dia.m, dia.d)
            veces == vecesReportada(toISODate(dia))
        IN  /\ (semana \in 1..6) => (veces >= 1)
            /\ (semana = 5) =>
                    /\ veces = 2
                    /\ fechasReportadas[j + 1] = toISODate(dia)
                    /\ fechasReportadas[j + 3] = toISODate(dia)
            /\ (semana = 0) => (veces = 0)
    /\ \A i \in 1..Len(fechasReportadas) :
        LET r == fechaSQL(fechasReportadas[i])
        IN  diaDeLaSemana(r[1], r[2], r[3]) # 0

\* Friday 2023-12-29 reported by the triggers of Saturday 2023-12-30 and of
\* Monday 2024-01-01, in a run of daily triggers that has passed 2024-03-01
C27_Testigo ==
    /\ Len(diasDeDisparo) >= 68
    /\ diasDeDisparo[8] = Fecha(2024, 1, 1)
    /\ fechasReportadas[6] = toISODate(Fecha(2023, 12, 29))
    /\ fechasReportadas[8] = toISODate(Fecha(2023, 12, 29))
    /\ vecesReportada(toISODate(Fecha(2023, 12, 29))) = 2
    /\ vecesReportada(toISODate(Fecha(2024, 2, 29))) = 1
    /\ vecesReportada(toISODate(Fecha(2023, 12, 31))) = 0

=============================================================================
